---- MODULE Spec2Model ----
(***************************************************************************)
(* Model of src/emergency_vehicle_simulation.py: the emergency vehicle     *)
(* priority controller of one intersection (class                          *)
(* EmergencyVehiclePriority) driven tick by tick by a traffic simulator.   *)
(*                                                                         *)
(* The controller's fields keep their names.  The simulator (traci) is     *)
(* the environment: each tick it advances the simulated time by the        *)
(* configured step length and presents a telemetry snapshot (the id list   *)
(* in scan order and, per vehicle, the answers of getTypeID, getRoadID     *)
(* and the lane queries, any of which may raise).  One fault plan per      *)
(* tick names a call site of a simulator-wide query or of the signal       *)
(* actuator that raises when it is reached.                                *)
(*                                                                         *)
(* One action, Tick, is one iteration of the loop of run(): the simulator  *)
(* step, then the whole body (check / deactivate / detect / activate).     *)
(* The diagnostic print of every 30th step (lines 263-268) only reads.     *)
(***************************************************************************)
EXTENDS Integers, Sequences, FiniteSets, TLC

VARIABLES
    emergency_active,               \* self.emergency_active
    emergency_vehicle_id,           \* self.emergency_vehicle_id
    emergency_direction,            \* self.emergency_direction
    emergency_start_time,           \* self.emergency_start_time
    processed_emergency_vehicles,   \* self.processed_emergency_vehicles
    pc,                             \* position of run(): "loop", "aborted", "done"
    step_length,                    \* simulated seconds per simulationStep()
    now,                            \* traci.simulation.getTime()
    id_list,                        \* traci.vehicle.getIDList(), in scan order
    telemetry,                      \* per vehicle: type, road, lane position
    tl_state,                       \* last setRedYellowGreenState argument
    tl_duration,                    \* last setPhaseDuration argument
    issued,                         \* actuator calls made in this tick, in order
    calls,                          \* methods run() called in this tick, in order
    reason,                         \* why check_emergency_vehicle_passed answered
    raised,                         \* call site that raised in this tick
    ended,                          \* <<id, direction>> deactivated in this tick
    clearance,                      \* <<direction, time>> of a pending yellow
    activated,                      \* vehicles an override was started for
    restored                        \* vehicles whose restore was issued

vars == <<emergency_active, emergency_vehicle_id, emergency_direction,
          emergency_start_time, processed_emergency_vehicles, pc, step_length,
          now, id_list, telemetry, tl_state, tl_duration, issued, calls,
          reason, raised, ended, clearance, activated, restored>>

----------------------------------------------------------------------------
(* Bounds of the model *)

\* simulated time is followed up to MaxTime seconds
MaxTime == 20

\* length of every lane of the network, in meters
LaneLength == 100

\* the step lengths of the simulator configuration: 5 reaches the timeout
\* exactly (T + 10), 3 passes T + 9 and overshoots to T + 12
StepLengths == {3, 5}

Vehicles == {"amb1", "amb2", "amb3"}

\* the vehicles that enter the network in the runs of the loop
LoopVehicles == {"amb1", "amb2"}

----------------------------------------------------------------------------
(* Constants of the program *)

emergency_phase_duration == 10

yellow_duration == 2

detection_distance == 50

\* mutant of TimeoutLiteral: the 25 seconds of the module's docstring
TimeoutLiteral_Docstring == emergency_phase_duration + 15

\* the literal of the safety timeout in check_emergency_vehicle_passed
TimeoutLiteral == 10

\* the literal duration of the yellow set by deactivate_emergency_priority
ShortYellowLiteral == 2

None == "None"

\* what a traci query that raises stands for
Raises == "TraCIException"

RoadRaises == <<Raises>>

LanePosRaises == -1

----------------------------------------------------------------------------
(* Road segment ids.  An id is the sequence of its parts, so that           *)
(* 'north_in' in road_id is the search of <<"north", "_in">> in it and      *)
(* '_in' in road_id the search of <<"_in">>.                                *)

north_in == <<"north", "_in">>
south_in == <<"south", "_in">>
east_in == <<"east", "_in">>
west_in == <<"west", "_in">>
north_out == <<"north", "_out">>
east_out == <<"east", "_out">>
center_internal == <<":", "center", "_0">>
ramp_in == <<"ramp", "_in">>
center_in == <<"center", "_in">>
empty_road == <<>>

\* Python's  pattern in road_id  on strings
Contains(pattern, road_id) ==
    \E i \in 1..(Len(road_id) - Len(pattern) + 1) :
        SubSeq(road_id, i, i + Len(pattern) - 1) = pattern

----------------------------------------------------------------------------
(* Signal indications: 12 links, north_in (3), east_in (3), south_in (3),   *)
(* west_in (3).                                                             *)

\* "GGGrrrGGGrrr"
NS_GREEN_STATE == <<"G","G","G","r","r","r","G","G","G","r","r","r">>
\* "rrrGGGrrrGGG"
EW_GREEN_STATE == <<"r","r","r","G","G","G","r","r","r","G","G","G">>
\* "yyyrrryyyrrr"
NS_YELLOW_STATE == <<"y","y","y","r","r","r","y","y","y","r","r","r">>
\* "rrryyyrrryyy"
EW_YELLOW_STATE == <<"r","r","r","y","y","y","r","r","r","y","y","y">>

NoState == <<>>

Links == 1..12

\* the direction a link serves: links 1-3 and 7-9 are north/south approaches
LinkDirection(i) == IF i \in {1, 2, 3, 7, 8, 9} THEN "NS" ELSE "EW"

Directions == {"NS", "EW"}

OtherDirection(d) == IF d = "NS" THEN "EW" ELSE "NS"

----------------------------------------------------------------------------
(* Telemetry of one tick *)

\* a vehicle that is not in the simulation: every query about it raises
Gone == [type |-> Raises, road |-> RoadRaises, lane_pos |-> LanePosRaises]

Veh(type, road, lane_pos) == [type |-> type, road |-> road, lane_pos |-> lane_pos]

\* lane positions at 10 m, exactly 50 m and 51 m from the junction
PosNear == LaneLength - 10
PosBoundary == LaneLength - detection_distance
PosBeyond == LaneLength - detection_distance - 1

\* what the simulator can report for a live vehicle in a tick of the loop
TickTelemetry ==
    { Veh("emergency", north_in, PosNear),
      Veh("emergency", north_in, PosBoundary),
      Veh("emergency", east_in, PosNear),
      Veh("emergency", north_out, 0),
      Veh("emergency", center_internal, 0),
      Veh("emergency", empty_road, 0),
      Veh("emergency", RoadRaises, LanePosRaises),
      Veh("emergency", north_in, LanePosRaises),
      Veh("passenger", north_in, PosNear),
      Veh(Raises, north_in, PosNear) }

----------------------------------------------------------------------------
(* The methods of EmergencyVehiclePriority that only read *)

get_vehicle_direction(tel, vehicle_id) ==
    LET road_id == tel[vehicle_id].road IN
    IF road_id = RoadRaises THEN None
    ELSE IF Contains(north_in, road_id) \/ Contains(south_in, road_id) THEN "NS"
    ELSE IF Contains(east_in, road_id) \/ Contains(west_in, road_id) THEN "EW"
    ELSE None

\* mutant of is_emergency_vehicle: every type counts as a priority vehicle
is_emergency_vehicle_AnyType(tel, vehicle_id) == TRUE

\* mutant of is_emergency_vehicle: the except branch returns True
is_emergency_vehicle_ExceptTrue(tel, vehicle_id) ==
    tel[vehicle_id].type \in {"emergency", Raises}

is_emergency_vehicle(tel, vehicle_id) ==
    LET vehicle_type == tel[vehicle_id].type IN
    IF vehicle_type = Raises THEN FALSE
    ELSE vehicle_type = "emergency"

\* mutant of SkipProcessed: processed vehicles are scanned like the others
SkipProcessed_Never(veh_id, processed) == FALSE

\* vehicle ids skipped by the scan of the detection
SkipProcessed(veh_id, processed) == veh_id \in processed

\* the incoming-edge test of the detection
OnIncomingEdge(road_id) ==
    Contains(<<"_in">>, road_id) /\ ~Contains(<<"center">>, road_id)

\* mutant of WithinDetectionRange: the boundary is excluded
WithinDetectionRange_Strict(distance_to_junction) ==
    distance_to_junction < detection_distance

WithinDetectionRange(distance_to_junction) ==
    distance_to_junction <= detection_distance

\* the body of the scan for one vehicle: the entries it appends
DetectOne(tel, veh_id, processed) ==
    IF SkipProcessed(veh_id, processed) THEN <<>>
    ELSE IF ~is_emergency_vehicle(tel, veh_id) THEN <<>>
    ELSE LET road_id == tel[veh_id].road IN
         IF road_id = RoadRaises THEN <<>>
         ELSE IF ~OnIncomingEdge(road_id) THEN <<>>
         ELSE LET lane_pos == tel[veh_id].lane_pos IN
              IF lane_pos = LanePosRaises THEN <<>>
              ELSE LET distance_to_junction == LaneLength - lane_pos
                       direction == get_vehicle_direction(tel, veh_id)
                   IN  IF WithinDetectionRange(distance_to_junction)
                          /\ direction # None
                       THEN << [id |-> veh_id, direction |-> direction,
                                distance |-> distance_to_junction] >>
                       ELSE <<>>

RECURSIVE ScanVehicles(_, _, _, _)
ScanVehicles(all_vehicles, tel, processed, i) ==
    IF i > Len(all_vehicles) THEN <<>>
    ELSE DetectOne(tel, all_vehicles[i], processed)
         \o ScanVehicles(all_vehicles, tel, processed, i + 1)

get_approaching_emergency_vehicles(all_vehicles, tel, processed) ==
    ScanVehicles(all_vehicles, tel, processed, 1)

\* mutant of Closer: an entry of equal distance replaces the best so far
Closer_OrEqual(candidate, best) == candidate.distance <= best.distance

\* whether entry i wins against the best entry so far: Python's min keeps
\* the first of equal keys
Closer(candidate, best) == candidate.distance < best.distance

RECURSIVE MinFrom(_, _, _)
MinFrom(emergency_vehicles, i, best) ==
    IF i > Len(emergency_vehicles) THEN best
    ELSE MinFrom(emergency_vehicles, i + 1,
                 IF Closer(emergency_vehicles[i], best)
                 THEN emergency_vehicles[i] ELSE best)

\* min(emergency_vehicles, key=lambda x: x['distance'])
closest(emergency_vehicles) ==
    MinFrom(emergency_vehicles, 2, emergency_vehicles[1])

----------------------------------------------------------------------------
(* Faults.  A fault plan is the set of call sites that raise when the tick  *)
(* reaches them.  Queries about one vehicle raise through the telemetry.    *)

Sites ==
    { "check.getIDList", "check.getTime", "detect.getIDList",
      "activate.getTime",
      "activate.setRedYellowGreenState", "activate.setPhaseDuration",
      "deactivate.setRedYellowGreenState", "deactivate.setPhaseDuration" }

\* no fault, one faulty call site, or a query that raises wherever it is made
FaultPlans ==
    { {} } \cup { {site} : site \in Sites }
    \cup { {"check.getIDList", "detect.getIDList"},
           {"check.getTime", "activate.getTime"} }

----------------------------------------------------------------------------
(* The tick as a record m: the controller's fields, the position of run(),  *)
(* the actuator, the inputs of the tick (time, ids, tel, plan) and what     *)
(* the tick has done so far.                                                *)

\* mutant of Raise: the exception is caught and the tick goes on
Raise_Swallowed(m, site) ==
    [m EXCEPT !.raised = @ \cup {site}]

\* an exception nobody catches leaves run() through run_simulation's finally
Raise(m, site) ==
    [m EXCEPT !.pc = "aborted", !.raised = @ \cup {site}]

\* traci.trafficlight.setRedYellowGreenState(self.tl_id, state) at a call site
setRedYellowGreenState(m, site, state) ==
    IF m.pc # "loop" THEN m
    ELSE IF site \in m.plan THEN Raise(m, site)
    ELSE [m EXCEPT !.tl_state = state,
                   !.issued = Append(@, [call |-> "setRedYellowGreenState",
                                         state |-> state, duration |-> 0])]

\* traci.trafficlight.setPhaseDuration(self.tl_id, duration) at a call site
setPhaseDuration(m, site, duration) ==
    IF m.pc # "loop" THEN m
    ELSE IF site \in m.plan THEN Raise(m, site)
    ELSE [m EXCEPT !.tl_duration = duration,
                   !.issued = Append(@, [call |-> "setPhaseDuration",
                                         state |-> NoState,
                                         duration |-> duration])]

\* mutant of EmergencyState: the EW branch repeats the NS indication
EmergencyState_CopiedBranch(direction) == NS_GREEN_STATE

\* the indication activation sets for a direction
EmergencyState(direction) ==
    IF direction = "NS" THEN NS_GREEN_STATE ELSE EW_GREEN_STATE

\* the duration activation sets
ActivationDuration == emergency_phase_duration

activate_emergency_priority(m, vehicle_id, direction) ==
    LET m1 == [m EXCEPT !.calls = Append(@, "activate_emergency_priority"),
                        !.activated = @ \cup {vehicle_id},
                        !.emergency_active = TRUE,
                        !.emergency_vehicle_id = vehicle_id,
                        !.emergency_direction = direction]
        m2 == IF "activate.getTime" \in m1.plan
              THEN Raise(m1, "activate.getTime")
              ELSE [m1 EXCEPT !.emergency_start_time = m1.time]
    IN  IF direction \in {"NS", "EW"}
        THEN setPhaseDuration(
                 setRedYellowGreenState(m2, "activate.setRedYellowGreenState",
                                        EmergencyState(direction)),
                 "activate.setPhaseDuration", ActivationDuration)
        ELSE m2

\* mutant of HasPassed: an empty road id does not count
HasPassed_OutgoingOnly(road_id) == Contains(<<"_out">>, road_id)

\* road ids that count as having passed the intersection
HasPassed(road_id) == Contains(<<"_out">>, road_id) \/ road_id = empty_road

\* mutant of TimedOut: no safety timeout
TimedOut_Never(elapsed_time) == FALSE

\* mutant of TimedOut: a strict comparison
TimedOut_Strict(elapsed_time) == elapsed_time > TimeoutLiteral

\* the comparison of the safety timeout
TimedOut(elapsed_time) == elapsed_time >= TimeoutLiteral

\* why check_emergency_vehicle_passed returns True, or "no" when it
\* returns False; "error" is the except branch
check_emergency_vehicle_passed(m) ==
    IF "check.getIDList" \in m.plan THEN "error"
    ELSE IF \A i \in 1..Len(m.ids) : m.ids[i] # m.emergency_vehicle_id
    THEN "left"
    ELSE LET road_id == m.tel[m.emergency_vehicle_id].road IN
         IF road_id = RoadRaises THEN "error"
         ELSE IF HasPassed(road_id) THEN "passed"
         ELSE IF "check.getTime" \in m.plan THEN "error"
         ELSE IF TimedOut(m.time - m.emergency_start_time) THEN "timeout"
         ELSE "no"

\* mutant of CheckResult: a vehicle that left the simulation is kept
CheckResult_LeftFalse(why) == why \notin {"no", "left"}

\* mutant of CheckResult: the except branch returns False
CheckResult_ExceptFalse(why) == why \notin {"no", "error"}

\* the value check_emergency_vehicle_passed returns: True on every branch
\* but the last, the except branch included
CheckResult(why) == why # "no"

\* the sites of check_emergency_vehicle_passed that raised (and were caught)
CheckRaised(m, why) ==
    IF why # "error" THEN {}
    ELSE IF "check.getIDList" \in m.plan THEN {"check.getIDList"}
    ELSE IF m.tel[m.emergency_vehicle_id].road = RoadRaises THEN {}
    ELSE {"check.getTime"}

\* mutant of YellowState: the yellow goes to the direction that was red
YellowState_Swapped(last_emergency_direction) ==
    IF last_emergency_direction = "NS" THEN EW_YELLOW_STATE ELSE NS_YELLOW_STATE

\* the indication deactivation sets after an override of a direction
YellowState(last_emergency_direction) ==
    IF last_emergency_direction = "NS" THEN NS_YELLOW_STATE ELSE EW_YELLOW_STATE

\* mutant of ResetState: the active vehicle id is not cleared
ResetState_KeepsVehicle(m) ==
    [m EXCEPT !.emergency_active = FALSE,
              !.emergency_direction = None,
              !.emergency_start_time = 0]

\* the fields deactivation resets
ResetState(m) ==
    [m EXCEPT !.emergency_active = FALSE,
              !.emergency_vehicle_id = None,
              !.emergency_direction = None,
              !.emergency_start_time = 0]

\* mutant of MarkProcessed: deactivation forgets the vehicle
MarkProcessed_Skipped(m) == m

\* mutant of MarkProcessed: the set is replaced, not extended
MarkProcessed_Replaces(m) ==
    [m EXCEPT !.processed_emergency_vehicles = {m.emergency_vehicle_id}]

\* the vehicle deactivation marks as processed
MarkProcessed(m) ==
    [m EXCEPT !.processed_emergency_vehicles = @ \cup {m.emergency_vehicle_id}]

deactivate_emergency_priority(m) ==
    LET last_emergency_direction == m.emergency_direction
        m1 == [MarkProcessed(m) EXCEPT
                  !.calls = Append(@, "deactivate_emergency_priority"),
                  !.ended = <<m.emergency_vehicle_id, m.emergency_direction>>]
        m2 == ResetState(m1)
    IN  IF last_emergency_direction \in {"NS", "EW"}
        THEN LET m3 == setRedYellowGreenState(
                           m2, "deactivate.setRedYellowGreenState",
                           YellowState(last_emergency_direction))
                 m4 == IF m3.pc = "loop"
                       THEN [m3 EXCEPT !.clearance =
                                          <<last_emergency_direction, m3.time>>]
                       ELSE m3
                 m5 == setPhaseDuration(m4, "deactivate.setPhaseDuration",
                                        ShortYellowLiteral)
             IN  IF m5.pc = "loop"
                 THEN [m5 EXCEPT !.restored = @ \cup {m.emergency_vehicle_id}]
                 ELSE m5
        ELSE m2

\* run(), lines 250-252
CheckStep(m) ==
    LET why == check_emergency_vehicle_passed(m)
        m1 == [m EXCEPT !.calls = Append(@, "check_emergency_vehicle_passed"),
                        !.reason = why,
                        !.raised = @ \cup CheckRaised(m, why)]
    IN  IF CheckResult(why) THEN deactivate_emergency_priority(m1) ELSE m1

\* run(), lines 256-261
DetectStep(m) ==
    LET m1 == [m EXCEPT !.calls = Append(@, "get_approaching_emergency_vehicles")]
    IN  IF "detect.getIDList" \in m.plan THEN Raise(m1, "detect.getIDList")
        ELSE LET emergency_vehicles ==
                     get_approaching_emergency_vehicles(
                         m.ids, m.tel, m.processed_emergency_vehicles)
             IN  IF emergency_vehicles # <<>>
                 THEN activate_emergency_priority(
                          m1, closest(emergency_vehicles).id,
                          closest(emergency_vehicles).direction)
                 ELSE m1

\* the test of line 250
ShouldCheck(m) == m.emergency_active

\* mutant of ShouldDetect: the detection runs in every tick
ShouldDetect_Always(m) == TRUE

\* the test of line 255
ShouldDetect(m) == ~m.emergency_active

\* the body of the loop of run() after simulationStep()
run_body(m) ==
    LET m1 == IF ShouldCheck(m) THEN CheckStep(m) ELSE m
    IN  IF m1.pc = "loop" /\ ShouldDetect(m1) THEN DetectStep(m1) ELSE m1

----------------------------------------------------------------------------
(* The simulator between two ticks: one vehicle enters (anywhere in the id *)
(* list), leaves, or reports something else, or two vehicles enter an       *)
(* empty network together.                                                  *)

InsertAt(seq, i, x) == SubSeq(seq, 1, i) \o <<x>> \o SubSeq(seq, i + 1, Len(seq))

RemoveAt(seq, i) == SubSeq(seq, 1, i - 1) \o SubSeq(seq, i + 1, Len(seq))

Listed(ids) == { ids[i] : i \in 1..Len(ids) }

NextSnapshots(ids, tel) ==
    { [ids |-> ids, tel |-> tel] }
    \cup { [ids |-> InsertAt(ids, i, v), tel |-> [tel EXCEPT ![v] = t]] :
             v \in LoopVehicles \ Listed(ids), i \in 0..Len(ids), t \in TickTelemetry }
    \cup { [ids |-> RemoveAt(ids, i), tel |-> [tel EXCEPT ![ids[i]] = Gone]] :
             i \in 1..Len(ids) }
    \cup { [ids |-> ids, tel |-> [tel EXCEPT ![v] = t]] :
             v \in Listed(ids), t \in TickTelemetry }
    \cup { [ids |-> p, tel |-> [tel EXCEPT ![p[1]] = t, ![p[2]] = u]] :
             p \in { q \in LoopVehicles \X LoopVehicles :
                         ids = <<>> /\ q[1] # q[2] },
             t \in TickTelemetry, u \in TickTelemetry }

----------------------------------------------------------------------------
(* The state machine *)

\* __init__ and the simulator before the first step
Init ==
    /\ emergency_active = FALSE
    /\ emergency_vehicle_id = None
    /\ emergency_direction = None
    /\ emergency_start_time = 0
    /\ processed_emergency_vehicles = {}
    /\ pc = "loop"
    /\ step_length \in StepLengths
    /\ now = 0
    /\ id_list = <<>>
    /\ telemetry = [v \in Vehicles |-> Gone]
    /\ tl_state = NoState
    /\ tl_duration = 0
    /\ issued = <<>>
    /\ calls = <<>>
    /\ reason = "none"
    /\ raised = {}
    /\ ended = <<>>
    /\ clearance = <<>>
    /\ activated = {}
    /\ restored = {}

\* the tick's record at the top of the loop body, after simulationStep()
TickStart(snap, plan) ==
    [ emergency_active |-> emergency_active,
      emergency_vehicle_id |-> emergency_vehicle_id,
      emergency_direction |-> emergency_direction,
      emergency_start_time |-> emergency_start_time,
      processed_emergency_vehicles |-> processed_emergency_vehicles,
      pc |-> pc,
      tl_state |-> tl_state,
      tl_duration |-> tl_duration,
      time |-> now + step_length,
      ids |-> snap.ids,
      tel |-> snap.tel,
      plan |-> plan,
      issued |-> <<>>,
      calls |-> <<>>,
      reason |-> "none",
      raised |-> {},
      ended |-> <<>>,
      clearance |-> IF clearance # <<>>
                       /\ now + step_length < clearance[2] + yellow_duration
                    THEN clearance ELSE <<>>,
      activated |-> activated,
      restored |-> restored ]

\* one iteration of  while traci.simulation.getMinExpectedNumber() > 0
Tick ==
    /\ pc = "loop"
    /\ now + step_length <= MaxTime
    /\ \E snap \in NextSnapshots(id_list, telemetry), plan \in FaultPlans :
       \E m \in { run_body(TickStart(snap, plan)) } :
         /\ m.raised = plan
         /\ emergency_active' = m.emergency_active
         /\ emergency_vehicle_id' = m.emergency_vehicle_id
         /\ emergency_direction' = m.emergency_direction
         /\ emergency_start_time' = m.emergency_start_time
         /\ processed_emergency_vehicles' = m.processed_emergency_vehicles
         /\ pc' = m.pc
         /\ now' = m.time
         /\ id_list' = m.ids
         /\ telemetry' = m.tel
         /\ tl_state' = m.tl_state
         /\ tl_duration' = m.tl_duration
         /\ issued' = m.issued
         /\ calls' = m.calls
         /\ reason' = m.reason
         /\ raised' = m.raised
         /\ ended' = m.ended
         /\ clearance' = m.clearance
         /\ activated' = m.activated
         /\ restored' = m.restored
    /\ UNCHANGED step_length

\* the loop condition fails: no vehicle is in the network or waiting for it
LoopExit ==
    /\ pc = "loop"
    /\ id_list = <<>>
    /\ pc' = "done"
    /\ UNCHANGED <<emergency_active, emergency_vehicle_id, emergency_direction,
                   emergency_start_time, processed_emergency_vehicles,
                   step_length, now, id_list, telemetry, tl_state, tl_duration,
                   issued, calls, reason, raised, ended, clearance,
                   activated, restored>>

Next == Tick \/ LoopExit

Spec == Init /\ [][Next]_vars

\* simulationStep() advances the simulated time by one step
Advance ==
    /\ pc = "loop"
    /\ now + step_length <= MaxTime
    /\ now' = now + step_length

\* the loop keeps iterating and every iteration advances the time: run()
\* has no exit but the loop condition and an exception, so a tick that can
\* run does run
LiveSpec == Init /\ [][Next]_vars /\ WF_now(Advance)

----------------------------------------------------------------------------
(* One tick of detection and arbitration on a drawn snapshot: the           *)
(* controller is in NORMAL mode with any set of processed vehicles, up to   *)
(* three vehicles are live in any scan order, and the tick runs the loop    *)
(* body on that snapshot.                                                   *)

\* lane position at a distance from the junction
PosAt(distance) == LaneLength - distance

DetectTelemetry ==
    { Veh("emergency", north_in, PosAt(40)),
      Veh("emergency", north_in, PosAt(10)),
      Veh("emergency", south_in, PosAt(25)),
      Veh("emergency", east_in, PosAt(10)),
      Veh("emergency", west_in, PosAt(25)),
      Veh("passenger", north_in, PosAt(10)),
      Veh("emergency", north_in, PosBoundary),
      Veh("emergency", north_in, PosBeyond),
      Veh("emergency", ramp_in, PosAt(10)),
      Veh("emergency", center_in, PosAt(10)),
      Veh("emergency", center_internal, 0),
      Veh(Raises, north_in, PosAt(10)),
      Veh("emergency", RoadRaises, LanePosRaises),
      Veh("emergency", east_in, LanePosRaises) }

\* the id lists of the simulator: the live vehicles in any order
IdLists ==
    { ids \in UNION { [1..n -> Vehicles] : n \in 0..Cardinality(Vehicles) } :
        \A i, j \in 1..Len(ids) : i # j => ids[i] # ids[j] }

DetectInit ==
    /\ emergency_active = FALSE
    /\ emergency_vehicle_id = None
    /\ emergency_direction = None
    /\ emergency_start_time = 0
    /\ processed_emergency_vehicles \in SUBSET Vehicles
    /\ pc = "loop"
    /\ step_length \in StepLengths
    /\ now = 0
    /\ id_list \in IdLists
    /\ telemetry \in [Vehicles -> DetectTelemetry \cup {Gone}]
    /\ \A v \in Vehicles : telemetry[v] = Gone <=> v \notin Listed(id_list)
    /\ tl_state = NoState
    /\ tl_duration = 0
    /\ issued = <<>>
    /\ calls = <<>>
    /\ reason = "none"
    /\ raised = {}
    /\ ended = <<>>
    /\ clearance = <<>>
    /\ activated = processed_emergency_vehicles
    /\ restored = processed_emergency_vehicles

\* the simulator steps without changing what the vehicles report
DetectTick ==
    /\ pc = "loop"
    /\ now = 0
    /\ \E m \in { run_body(TickStart([ids |-> id_list, tel |-> telemetry], {})) } :
         /\ emergency_active' = m.emergency_active
         /\ emergency_vehicle_id' = m.emergency_vehicle_id
         /\ emergency_direction' = m.emergency_direction
         /\ emergency_start_time' = m.emergency_start_time
         /\ processed_emergency_vehicles' = m.processed_emergency_vehicles
         /\ pc' = m.pc
         /\ now' = m.time
         /\ tl_state' = m.tl_state
         /\ tl_duration' = m.tl_duration
         /\ issued' = m.issued
         /\ calls' = m.calls
         /\ reason' = m.reason
         /\ raised' = m.raised
         /\ ended' = m.ended
         /\ clearance' = m.clearance
         /\ activated' = m.activated
         /\ restored' = m.restored
    /\ UNCHANGED <<step_length, id_list, telemetry>>

DetectNext == DetectTick

DetectSpec == DetectInit /\ [][DetectNext]_vars

TypeOK ==
    /\ emergency_active \in BOOLEAN
    /\ emergency_vehicle_id \in Vehicles \cup {None}
    /\ emergency_direction \in Directions \cup {None}
    /\ emergency_start_time \in 0..MaxTime
    /\ processed_emergency_vehicles \subseteq Vehicles
    /\ pc \in {"loop", "aborted", "done"}
    /\ now \in 0..MaxTime
    /\ raised \subseteq Sites
    /\ activated \subseteq Vehicles
    /\ restored \subseteq activated

----------------------------------------------------------------------------
(* Properties *)

InCalls(method) == \E i \in 1..Len(calls) : calls[i] = method

\* a tick has run to its end
TickFinished == pc = "loop" /\ now > 0

\* C1: in every reachable controller state the mode is OVERRIDE
\* (emergency_active) exactly when an active vehicle id is set, and then the
\* active direction is NS or EW; in NORMAL both are unset.
C1_ModeIffActiveVehicle ==
    /\ emergency_active <=> emergency_vehicle_id # None
    /\ emergency_active =>
          emergency_vehicle_id \in Vehicles /\ emergency_direction \in Directions
    /\ ~emergency_active =>
          emergency_vehicle_id = None /\ emergency_direction = None

\* a second override is active after an earlier one was ended
C1_Witness ==
    /\ emergency_active
    /\ emergency_vehicle_id \in Vehicles
    /\ processed_emergency_vehicles # {}

\* C2: no re-entry: once a vehicle id is in processed_emergency_vehicles no
\* later step makes it the active vehicle again.
C2_NoReentry ==
    [][\A v \in processed_emergency_vehicles : emergency_vehicle_id' # v]_vars

\* a processed priority vehicle is again within the detection distance on a
\* mapped incoming segment, detection has run, and nothing was activated
C2_Witness ==
    /\ TickFinished
    /\ InCalls("get_approaching_emergency_vehicles")
    /\ ~emergency_active
    /\ \E v \in processed_emergency_vehicles :
          /\ v \in Listed(id_list)
          /\ DetectOne(telemetry, v, {}) # <<>>

\* C3: hard safety timeout: no tick finishes in OVERRIDE with
\* now - emergency_start_time >= emergency_phase_duration, the duration that
\* activation commands to the signal.
C3_HardTimeout ==
    (pc # "aborted" /\ emergency_active) =>
        now - emergency_start_time < emergency_phase_duration

\* the timeout ended the override of a vehicle that is still on its incoming
\* lane and whose position cannot be resolved
C3_Witness ==
    /\ TickFinished
    /\ reason = "timeout"
    /\ ended # <<>>
    /\ ended[1] \in Listed(id_list)
    /\ telemetry[ended[1]] = Veh("emergency", north_in, LanePosRaises)

\* the active vehicle of this state is, in the next state, still live, on a
\* segment that is neither outgoing nor empty, and the queries of the check
\* succeed
ActiveVehicleStays ==
    /\ emergency_vehicle_id \in Listed(id_list')
    /\ telemetry'[emergency_vehicle_id].road # RoadRaises
    /\ ~Contains(<<"_out">>, telemetry'[emergency_vehicle_id].road)
    /\ telemetry'[emergency_vehicle_id].road # empty_road
    /\ raised' \cap {"check.getIDList", "check.getTime"} = {}

\* C4: no premature end and exact timeout: while the active vehicle stays
\* (live, not on an outgoing or empty segment, queries succeeding) a tick
\* with time < T + emergency_phase_duration keeps the override, and the first
\* tick with time >= T + emergency_phase_duration ends it.
C4_NoPrematureEndExactTimeout ==
    [][ (pc = "loop" /\ emergency_active /\ now' > now /\ ActiveVehicleStays) =>
          IF now' < emergency_start_time + emergency_phase_duration
          THEN /\ emergency_active'
               /\ emergency_vehicle_id' = emergency_vehicle_id
               /\ emergency_start_time' = emergency_start_time
               /\ emergency_vehicle_id \notin processed_emergency_vehicles'
          ELSE /\ emergency_vehicle_id \in processed_emergency_vehicles'
               /\ emergency_vehicle_id' # emergency_vehicle_id ]_vars

\* with steps of 3 s the timeout ended the override of a vehicle waiting
\* inside the junction, on the first tick past T + 10
C4_Witness ==
    /\ TickFinished
    /\ step_length = 3
    /\ reason = "timeout"
    /\ ended # <<>>
    /\ ended[1] \in Listed(id_list)
    /\ telemetry[ended[1]].road = center_internal

\* the active vehicle of this state is, in the next state, absent from the
\* live vehicle set, or on an outgoing or empty segment
ActiveVehicleLeftOrPassed ==
    \/ emergency_vehicle_id \notin Listed(id_list')
    \/ /\ telemetry'[emergency_vehicle_id].road # RoadRaises
       /\ \/ Contains(<<"_out">>, telemetry'[emergency_vehicle_id].road)
          \/ telemetry'[emergency_vehicle_id].road = empty_road

\* C5: passage and departure end the override in the same tick: if the mode
\* is OVERRIDE at the start of a tick and on that tick the active vehicle is
\* absent or on an outgoing or empty segment, the tick ends its override.
C5_PassageEndsSameTick ==
    [][ (pc = "loop" /\ emergency_active /\ now' > now
         /\ ActiveVehicleLeftOrPassed) =>
          /\ emergency_vehicle_id \in processed_emergency_vehicles'
          /\ emergency_vehicle_id' # emergency_vehicle_id ]_vars

\* a vehicle reported north_out before the timeout could have elapsed and
\* its override ended in that tick
C5_Witness ==
    /\ TickFinished
    /\ reason = "passed"
    /\ ended # <<>>
    /\ now < emergency_phase_duration
    /\ ended[1] \in Listed(id_list)
    /\ telemetry[ended[1]].road = north_out

\* C6 as stated: no tick evaluates both the passage check and the
\* detection, and no tick both ends an override and starts one.
C6_CheckAndDetectExclusive ==
    /\ ~(InCalls("check_emergency_vehicle_passed")
         /\ InCalls("get_approaching_emergency_vehicles"))
    /\ ~(ended # <<>> /\ InCalls("activate_emergency_priority"))

\* C6 (amended): within a tick the passage check comes before the detection
\* and the activation; a tick whose passage check answers False evaluates no
\* detection; a tick that ends one override and starts another starts it
\* for a different vehicle, so no override is started and then ended in one
\* tick.
C6_CheckBeforeDetect ==
    /\ reason = "no" => ~InCalls("get_approaching_emergency_vehicles")
    /\ \A i, j \in 1..Len(calls) :
          (/\ calls[i] \in {"get_approaching_emergency_vehicles",
                            "activate_emergency_priority"}
           /\ calls[j] \in {"check_emergency_vehicle_passed",
                            "deactivate_emergency_priority"}) => j < i
    /\ (ended # <<>> /\ InCalls("activate_emergency_priority")) =>
          /\ emergency_active
          /\ emergency_vehicle_id # ended[1]

\* one tick ended the override of one vehicle and started the override of
\* the other
C6_Witness ==
    /\ TickFinished
    /\ ended # <<>>
    /\ InCalls("activate_emergency_priority")
    /\ emergency_active

\* an indication that grants green to a direction
GrantsGreen(state, direction) ==
    \E i \in Links : LinkDirection(i) = direction /\ state[i] = "G"

\* entry i of this tick's actuator calls comes after the pending yellow
AfterYellow(i) ==
    \/ clearance[2] < now
    \/ \E j \in 1..(i - 1) :
          /\ issued[j].call = "setRedYellowGreenState"
          /\ issued[j].state = YellowState(clearance[1])

\* C7: clearance interval: after the yellow that ends an override of
\* direction d is commanded at time t, no command grants green to the
\* opposite direction before t + yellow_duration.
C7_ClearanceRespected ==
    clearance # <<>> =>
        \A i \in 1..Len(issued) :
            (/\ issued[i].call = "setRedYellowGreenState"
             /\ GrantsGreen(issued[i].state, OtherDirection(clearance[1]))
             /\ AfterYellow(i))
            => now >= clearance[2] + yellow_duration

Candidates ==
    get_approaching_emergency_vehicles(id_list, telemetry,
                                       processed_emergency_vehicles)

\* C10: arbitration: the vehicle a tick activates is a candidate of minimum
\* distance and, among the candidates at that distance, the earliest in the
\* scan order of the id list.
C10_ClosestFirstSeen ==
    InCalls("activate_emergency_priority") =>
        \E i \in 1..Len(Candidates) :
            /\ Candidates[i].id = emergency_vehicle_id
            /\ Candidates[i].direction = emergency_direction
            /\ \A j \in 1..Len(Candidates) :
                  /\ Candidates[j].distance >= Candidates[i].distance
                  /\ j < i => Candidates[j].distance > Candidates[i].distance

\* candidates at 25, 10 and 10 m in scan order amb2, amb3, amb1: the one
\* served is amb3, neither the first scanned nor the smallest id
C10_Witness ==
    /\ InCalls("activate_emergency_priority")
    /\ Len(Candidates) = 3
    /\ Candidates[1].distance = 25 /\ Candidates[1].id = "amb2"
    /\ Candidates[2].distance = 10 /\ Candidates[2].id = "amb3"
    /\ Candidates[3].distance = 10 /\ Candidates[3].id = "amb1"
    /\ emergency_vehicle_id = "amb3"

\* the approach segments of the junction and the direction each maps to
ApproachDirection(road_id) ==
    IF road_id \in {north_in, south_in} THEN "NS"
    ELSE IF road_id \in {east_in, west_in} THEN "EW"
    ELSE None

\* a live vehicle of priority kind, not processed, on a mapped incoming
\* segment, within the detection distance (boundary included), every lookup
\* succeeding
Qualifies(v) ==
    /\ v \in Listed(id_list)
    /\ telemetry[v].type = "emergency"
    /\ v \notin processed_emergency_vehicles
    /\ ApproachDirection(telemetry[v].road) # None
    /\ telemetry[v].lane_pos # LanePosRaises
    /\ LaneLength - telemetry[v].lane_pos <= 50

\* position of a live vehicle in the scan order
ScanIndex(v) == CHOOSE i \in 1..Len(id_list) : id_list[i] = v

\* C11: detection filter: the candidates of a tick are exactly the live
\* vehicles, in scan order, of priority kind, not processed, on a mapped
\* incoming segment, at a distance LaneLength - lane_pos <= 50 (50 included,
\* 51 excluded); the tick adds no vehicle to the processed set.
C11_DetectionFilter ==
    /\ [](/\ { Candidates[k].id : k \in 1..Len(Candidates) }
               = { v \in Vehicles : Qualifies(v) }
          /\ \A k \in 1..Len(Candidates) :
                /\ Candidates[k].direction
                     = ApproachDirection(telemetry[Candidates[k].id].road)
                /\ Candidates[k].distance
                     = LaneLength - telemetry[Candidates[k].id].lane_pos
                /\ \A l \in 1..Len(Candidates) :
                      k < l => ScanIndex(Candidates[k].id)
                                 < ScanIndex(Candidates[l].id))
    /\ [][processed_emergency_vehicles' = processed_emergency_vehicles]_vars

\* after a tick: the vehicle at exactly 50 m is the only candidate and was
\* served, the one at 51 m and the one on the unmapped ramp are not
\* candidates and are not processed
C11_Witness ==
    /\ InCalls("get_approaching_emergency_vehicles")
    /\ id_list = <<"amb1", "amb2", "amb3">>
    /\ telemetry["amb1"] = Veh("emergency", north_in, PosBeyond)
    /\ telemetry["amb2"] = Veh("emergency", ramp_in, PosAt(10))
    /\ telemetry["amb3"] = Veh("emergency", north_in, PosBoundary)
    /\ Len(Candidates) = 1
    /\ Candidates[1].distance = 50
    /\ emergency_vehicle_id = "amb3"
    /\ processed_emergency_vehicles = {}

\* a query of the passage check of this state's active vehicle fails in the
\* next state: getIDList, getRoadID of the listed vehicle, or getTime
CheckQueryFails ==
    \/ "check.getIDList" \in raised'
    \/ "check.getTime" \in raised'
    \/ /\ emergency_vehicle_id \in Listed(id_list')
       /\ telemetry'[emergency_vehicle_id].road = RoadRaises

\* C12: fail-open passage check: if a telemetry query of the check of the
\* active override fails on a tick, that tick ends the override: the vehicle
\* is added to the processed set, the OVERRIDE to NORMAL transition is made
\* and the vehicle is no longer the active one.
C12_FailOpen ==
    [][ (pc = "loop" /\ emergency_active /\ now' > now /\ CheckQueryFails) =>
          /\ emergency_vehicle_id \in processed_emergency_vehicles'
          /\ ended' = <<emergency_vehicle_id, emergency_direction>>
          /\ emergency_vehicle_id' # emergency_vehicle_id ]_vars

\* getRoadID raised for the listed active vehicle and the tick finished in
\* NORMAL with the vehicle processed
C12_Witness ==
    /\ TickFinished
    /\ reason = "error"
    /\ ended # <<>>
    /\ ended[1] \in Listed(id_list)
    /\ telemetry[ended[1]].road = RoadRaises
    /\ ended[1] \in processed_emergency_vehicles
    /\ ~emergency_active

\* the detection of this tick ran its scan
DetectionRan ==
    /\ InCalls("get_approaching_emergency_vehicles")
    /\ "detect.getIDList" \notin raised

\* a lookup the scan makes for live vehicle v raises: its type, or the road
\* of a priority vehicle, or the lane of a priority vehicle on an incoming
\* edge
LookupFails(v) ==
    /\ v \in Listed(id_list)
    /\ \/ telemetry[v].type = Raises
       \/ /\ telemetry[v].type = "emergency"
          /\ telemetry[v].road = RoadRaises
       \/ /\ telemetry[v].type = "emergency"
          /\ telemetry[v].road \in {north_in, south_in, east_in, west_in, ramp_in}
          /\ telemetry[v].lane_pos = LanePosRaises

CandidateIds == { Candidates[k].id : k \in 1..Len(Candidates) }

\* C13: non-fatal detection miss: if a lookup of the scan fails for a
\* vehicle on a tick, that vehicle is no candidate and is not served on that
\* tick, it is not added to the processed set, the other vehicles are still
\* evaluated (one that qualifies is a candidate and an override starts),
\* and the vehicle is served by a later tick on which it alone qualifies.
C13_DetectionMissNonFatal ==
    /\ [][ \A v \in Vehicles :
             (/\ pc = "loop" /\ now' > now
              /\ v \notin processed_emergency_vehicles
              /\ v # emergency_vehicle_id
              /\ DetectionRan' /\ LookupFails(v)')
             => /\ v \notin CandidateIds'
                /\ v \notin processed_emergency_vehicles'
                /\ emergency_vehicle_id' # v
                /\ pc' = "loop" \/ raised' # {}
                /\ \A w \in Vehicles :
                      Qualifies(w)' => w \in CandidateIds' /\ emergency_active'
         ]_vars
    /\ [][ \A v \in Vehicles :
             (/\ pc = "loop" /\ now' > now
              /\ DetectionRan /\ LookupFails(v)
              /\ v \notin processed_emergency_vehicles
              /\ ~emergency_active
              /\ raised' = {}
              /\ Qualifies(v)'
              /\ \A w \in Vehicles \ {v} : ~Qualifies(w)')
             => emergency_active' /\ emergency_vehicle_id' = v
         ]_vars

\* the lane lookup of amb1 raised during the scan of a tick that found and
\* served amb2; amb1 is not processed
C13_Witness ==
    /\ TickFinished
    /\ DetectionRan
    /\ LookupFails("amb1")
    /\ telemetry["amb1"].lane_pos = LanePosRaises
    /\ "amb1" \notin processed_emergency_vehicles
    /\ InCalls("activate_emergency_priority")
    /\ emergency_vehicle_id = "amb2"

\* the actuator calls of activation and deactivation
ActuationSites ==
    { "activate.setRedYellowGreenState", "activate.setPhaseDuration",
      "deactivate.setRedYellowGreenState", "deactivate.setPhaseDuration" }

\* C14: an actuator call that raises during activation or deactivation
\* is not swallowed: the tick in which it raises aborts the loop, issues no
\* later actuator call, and no further tick runs (nothing changes after
\* the abort).
C14_ActuationFailureAborts ==
    [][ /\ (now' > now /\ raised' \cap ActuationSites # {})
           => /\ pc' = "aborted"
              /\ "activate.setRedYellowGreenState" \in raised'
                    => issued' = <<>> \/ Len(issued') = 2
              /\ "activate.setPhaseDuration" \in raised'
                    => issued'[Len(issued')].call = "setRedYellowGreenState"
              /\ "deactivate.setRedYellowGreenState" \in raised'
                    => issued' = <<>>
              /\ "deactivate.setPhaseDuration" \in raised'
                    => Len(issued') = 1
        /\ pc = "aborted" => UNCHANGED vars
      ]_vars

\* the duration call of a deactivation raised after the yellow was set, and
\* the loop is aborted
C14_Witness ==
    /\ pc = "aborted"
    /\ raised = {"deactivate.setPhaseDuration"}
    /\ Len(issued) = 1
    /\ issued[1].state \in {NS_YELLOW_STATE, EW_YELLOW_STATE}
    /\ ~emergency_active

\* this step takes the controller out of the override it was in
OverrideEnds ==
    /\ emergency_active
    /\ now' > now
    /\ ~emergency_active' \/ emergency_vehicle_id' # emergency_vehicle_id

\* C15: every tick that ends an override, for whichever reason (left,
\* passed, timeout, failed query), adds the active vehicle to the processed
\* set, calls the restore for the active direction (its yellow and its
\* duration are the first commands of the tick unless the actuator raises)
\* and clears vehicle id, direction and start time; they are set again only
\* by an activation for another vehicle later in the same tick.
C15_DeactivationEffects ==
    [][ OverrideEnds
        => /\ reason' \in {"left", "passed", "timeout", "error"}
           /\ emergency_vehicle_id \in processed_emergency_vehicles'
           /\ ended' = <<emergency_vehicle_id, emergency_direction>>
           /\ \/ raised' \cap {"deactivate.setRedYellowGreenState",
                               "deactivate.setPhaseDuration"} # {}
              \/ /\ Len(issued') >= 2
                 /\ issued'[1] = [call |-> "setRedYellowGreenState",
                                  state |-> YellowState(emergency_direction),
                                  duration |-> 0]
                 /\ issued'[2] = [call |-> "setPhaseDuration",
                                  state |-> NoState,
                                  duration |-> ShortYellowLiteral]
           /\ \/ /\ ~emergency_active'
                 /\ emergency_vehicle_id' = None
                 /\ emergency_direction' = None
                 /\ emergency_start_time' = 0
              \/ /\ InCalls("activate_emergency_priority")'
                 /\ emergency_vehicle_id' # emergency_vehicle_id
                 /\ emergency_start_time' \in {0, now'}
      ]_vars

\* the override of amb1 for EW ended by the timeout: amb1 is processed, the
\* restore for EW was issued and the fields are cleared
C15_Witness ==
    /\ TickFinished
    /\ reason = "timeout"
    /\ ended = <<"amb1", "EW">>
    /\ "amb1" \in processed_emergency_vehicles
    /\ issued = << [call |-> "setRedYellowGreenState", state |-> EW_YELLOW_STATE,
                    duration |-> 0],
                   [call |-> "setPhaseDuration", state |-> NoState,
                    duration |-> 2] >>
    /\ ~emergency_active
    /\ emergency_vehicle_id = None
    /\ emergency_direction = None
    /\ emergency_start_time = 0

\* C16: the processed set never loses an element; a step changes it only
\* by ending an override, and then adds exactly the vehicle that was active
\* (so every processed vehicle was the active one before); a tick that
\* starts in NORMAL mode (detection, arbitration with its losers,
\* activation) leaves it unchanged.
C16_ProcessedFrame ==
    [][ /\ processed_emergency_vehicles \subseteq processed_emergency_vehicles'
        /\ processed_emergency_vehicles' # processed_emergency_vehicles
              => /\ OverrideEnds
                 /\ processed_emergency_vehicles' =
                        processed_emergency_vehicles \cup {emergency_vehicle_id}
                 /\ emergency_vehicle_id \in Vehicles
                 /\ emergency_vehicle_id \notin processed_emergency_vehicles
        /\ ~emergency_active
              => processed_emergency_vehicles' = processed_emergency_vehicles
      ]_vars

\* amb1 was served and processed earlier; in this tick amb1 and amb2 are
\* both scanned, amb2 is activated and the set is still {amb1}
C16_Witness ==
    /\ TickFinished
    /\ processed_emergency_vehicles = {"amb1"}
    /\ id_list = <<"amb1", "amb2">>
    /\ telemetry["amb1"] = Veh("emergency", north_in, PosNear)
    /\ ended = <<>>
    /\ InCalls("activate_emergency_priority")
    /\ emergency_vehicle_id = "amb2"

\* no live vehicle passes the filter of the detection
NobodyQualifies == \A v \in Vehicles : ~Qualifies(v)

\* C17: in a run in which no vehicle ever qualifies as a candidate the
\* controller is in NORMAL mode at every tick, no signal command is ever
\* issued and the processed set stays empty, up to and including the
\* termination of the loop.
C17_QuietWithoutCandidates ==
    ([]NobodyQualifies)
    => [](/\ ~emergency_active
          /\ emergency_vehicle_id = None
          /\ issued = <<>>
          /\ tl_state = NoState
          /\ processed_emergency_vehicles = {})

\* three ticks with vehicles that do not qualify: nothing was ever issued
C17_Witness ==
    /\ TickFinished
    /\ now >= 9
    /\ InCalls("get_approaching_emergency_vehicles")
    /\ id_list = <<"amb1", "amb2">>
    /\ telemetry["amb1"] = Veh("passenger", north_in, PosNear)
    /\ telemetry["amb2"] = Veh("emergency", center_internal, 0)
    /\ NobodyQualifies
    /\ ~emergency_active
    /\ tl_state = NoState
    /\ processed_emergency_vehicles = {}

\* C18: after an override ends the controller issues the yellow clearance
\* and then green for the opposite direction: once the clearance interval
\* is over and the loop has terminated, the last indication commanded is
\* not the clearance yellow any more.
C18_GreenFollowsClearance ==
    (pc = "done" /\ clearance = <<>>)
    => tl_state \notin {NS_YELLOW_STATE, EW_YELLOW_STATE}

\* C19: the loop ends (no vehicle is live in the last tick) only in NORMAL
\* mode with no active vehicle, direction or start time, and then every
\* vehicle an override was started for is processed and had its restore
\* issued.
C19_TerminatesNormal ==
    pc = "done"
    => /\ ~emergency_active
       /\ emergency_vehicle_id = None
       /\ emergency_direction = None
       /\ emergency_start_time = 0
       /\ activated \subseteq processed_emergency_vehicles
       /\ activated \subseteq restored

\* the loop ended after the overrides of amb1 and amb2
C19_Witness ==
    /\ pc = "done"
    /\ activated = {"amb1", "amb2"}
    /\ processed_emergency_vehicles = {"amb1", "amb2"}
    /\ restored = {"amb1", "amb2"}
    /\ ~emergency_active
    /\ ended # <<>>

\* the latest time at which a wait can begin and still be followed, within
\* MaxTime, over a whole override of another vehicle (the timeout and the
\* overshoot of a step that does not divide it)
WaitLimit == MaxTime - TimeoutLiteral - 2

\* C20: while the loop keeps running, an unprocessed priority vehicle that
\* stays on a mapped incoming edge within the detection distance, with
\* every lookup succeeding, eventually becomes the active vehicle, also when
\* an override of another vehicle is active or a closer candidate is served
\* first (the wait ends otherwise only if the vehicle stops qualifying or
\* the loop aborts).
C20_WaitingVehicleServed ==
    \A v \in LoopVehicles :
        [](( /\ pc = "loop"
             /\ now <= WaitLimit
             /\ Qualifies(v) )
           => <>( \/ emergency_vehicle_id = v
                  \/ ~Qualifies(v)
                  \/ pc = "aborted" ))

\* amb1 waited at the boundary of the zone through the override of amb2,
\* which ended by the timeout, and is activated in the same tick
C20_Witness ==
    /\ TickFinished
    /\ reason = "timeout"
    /\ ended # <<>>
    /\ ended[1] = "amb2"
    /\ telemetry["amb1"] = Veh("emergency", north_in, PosBoundary)
    /\ telemetry["amb2"].lane_pos = PosNear
    /\ InCalls("activate_emergency_priority")
    /\ emergency_vehicle_id = "amb1"
    /\ emergency_active

====
